---------------------------- MODULE Spec2Model ----------------------------
(***************************************************************************)
(* Streaming pattern matcher of the ESP-AT driver (namespace emakefun):    *)
(* multiFindUtil, singleFindUtil, skipNext and parseNumber of              *)
(* src/esp_at_stream_util.ts, run against a serial receive buffer that     *)
(* fills asynchronously and a millisecond clock that advances              *)
(* asynchronously.                                                         *)
(*                                                                         *)
(* Characters and bytes are their ASCII codes.  A call is split at the     *)
(* points where it reads the environment: the body of the do-loop (one     *)
(* serial.readBuffer and the processing of what it returned) is one step,  *)
(* the while-test (one input.runningTime) is another.  Bytes may arrive    *)
(* and the clock may advance between any two steps.                        *)
(*                                                                         *)
(* The last part models the callers of the finders in the command layer,   *)
(* writeCommand, restart and cancelSend of src/unnamed/part_000, with the  *)
(* finders above as the calls they make.                                   *)
(***************************************************************************)
EXTENDS Integers, Sequences, FiniteSets, TLC

VARIABLES
    op,          \* which function is being called
    targets,     \* multiFindUtil: targets; the others: <<target>>
    timeout_ms,  \* the timeout_ms argument
    now,         \* input.runningTime()
    end_time,    \* const end_time of the running call
    rx,          \* bytes waiting in the serial receive buffer
    arrived,     \* history: every byte that has arrived on the line, in order
    nEarly,      \* history: how many of them arrived before the deadline passed
    pc,          \* position of the call (multiFindUtil, skipNext, parseNumber)
    offsets,     \* multiFindUtil: offsets[]
    ret,         \* what the call returned or threw
    nproc,       \* history: bytes the call has processed (values of data[i] visited)
    ntaken,      \* history: bytes the call has removed from the receive buffer
    spc,         \* position of the singleFindUtil call
    offset,      \* singleFindUtil: offset
    sret,        \* what singleFindUtil returned or threw
    snproc,      \* history: bytes singleFindUtil has processed
    sntaken,     \* history: bytes singleFindUtil has removed from the receive buffer
    num_str,     \* parseNumber: num_str
    cpc,         \* position of the calling command (writeCommand, restart)
    command,     \* writeCommand: command
    success_target, \* writeCommand: success_target
    ctimeout,    \* timeout_ms argument of the calling command
    cend,        \* restart: end_time
    tx,          \* history: the strings written with serial.writeString
    cret,        \* what the calling command returned or threw
    nlines,      \* history: how many responses the module has sent
    ev           \* history: the finder calls a restart has made

envvars == <<op, targets, timeout_ms, now, end_time, rx, arrived, nEarly>>
mvars == <<pc, offsets, ret, nproc, ntaken>>
svars == <<spc, offset, sret, snproc, sntaken>>
cvars == <<cpc, command, success_target, ctimeout, cend, tx, cret, nlines, ev>>
vars == <<op, targets, timeout_ms, now, end_time, rx, arrived, nEarly,
          pc, offsets, ret, nproc, ntaken,
          spc, offset, sret, snproc, sntaken, num_str,
          cpc, command, success_target, ctimeout, cend, tx, cret, nlines, ev>>

----------------------------------------------------------------------------
(* Bounds of the model. *)

\* longest byte stream that arrives during a find or skip call
MaxStream == 4
\* longest byte stream that arrives during a parseNumber call
MaxParseStream == 5
\* largest timeout_ms tried
MaxTimeout == 1
\* most targets handed to multiFindUtil
MaxTargets == 2

\* the clock is followed until one tick after the latest deadline
MaxTime == MaxTimeout + 1

Timeouts == (0 - 1) .. MaxTimeout

\* 'A', 'B', 'C'
FindBytes == {65, 66, 67}
\* '-', '1', '2', 'a'
ParseBytes == {45, 49, 50, 97}

\* target strings tried by singleFindUtil and skipNext:
\* "", "A", "AB", "AAB", "ABAB"
TargetPool ==
    { <<>>, <<65>>, <<65, 66>>, <<65, 65, 66>>, <<65, 66, 65, 66>> }

\* target lists tried by multiFindUtil, up to MaxTargets targets each:
\* [], [""], ["A"], ["AB"], ["ABAB"], ["A","AB"], ["AB","CA"], ["AB",""],
\* ["AB","B","ABAB"]
CandidateLists ==
    { <<>>,
      << <<>> >>, << <<65>> >>, << <<65, 66>> >>, << <<65, 66, 65, 66>> >>,
      << <<65>>, <<65, 66>> >>,
      << <<65, 66>>, <<67, 65>> >>,
      << <<65, 66>>, <<>> >>,
      << <<65, 66>>, <<66>>, <<65, 66, 65, 66>> >> }

TargetLists == { l \in CandidateLists : Len(l) <= MaxTargets }

----------------------------------------------------------------------------
(* Values of the program. *)

None == [kind |-> "none", val |-> 0, line |-> 0]
Threw(l) == [kind |-> "throw", val |-> 0, line |-> l]
Index(j, l) == [kind |-> "index", val |-> j, line |-> l]
Bool(b, l) == [kind |-> IF b THEN "true" ELSE "false", val |-> 0, line |-> l]
Number(n, l) == [kind |-> "number", val |-> n, line |-> l]
NaN(l) == [kind |-> "NaN", val |-> 0, line |-> l]

\* Buffer.fromUTF8 on a string given as its code points (below 2048).
RECURSIVE FromUTF8(_)
FromUTF8(t) ==
    IF t = <<>> THEN <<>>
    ELSE LET c == Head(t)
         IN  (IF c < 128 THEN <<c>> ELSE <<192 + (c \div 64), 128 + (c % 64)>>)
             \o FromUTF8(Tail(t))

\* What indexing a Buffer past its end compares as: no byte of the alphabets.
OutOfRange == 0

\* buf[i], 0-based.
At(buf, i) == IF i >= 0 /\ i < Len(buf) THEN buf[i + 1] ELSE OutOfRange

\* A readBuffer that ignores the length asked for.
ReadBufferAll(buf, length) == buf

(* serial.readBuffer(length) on a receive buffer holding buf: everything   *)
(* that is waiting when length is 0, else at most length bytes; never      *)
(* waits.                                                                  *)
ReadBuffer(buf, length) ==
    IF length = 0 \/ Len(buf) <= length THEN buf ELSE SubSeq(buf, 1, length)

\* The receive buffer after data was read from its front.
AfterRead(buf, data) == SubSeq(buf, Len(data) + 1, Len(buf))

\* character codes of "-", "0" and "9"
Minus == 45
Zero == 48
Nine == 57

IsDigit(char) == Zero <= char /\ char <= Nine

\* The value of a run of decimal digits, most significant first.
RECURSIVE DecimalValue(_, _)
DecimalValue(digits, acc) ==
    IF digits = <<>> THEN acc
    ELSE DecimalValue(Tail(digits), 10 * acc + (Head(digits) - Zero))

\* A parseInt that drops the sign.
ParseIntUnsigned(str) ==
    IF Head(str) = Minus THEN DecimalValue(Tail(str), 0)
    ELSE DecimalValue(str, 0)

\* parseInt on a string made of an optional "-" and one or more digits.
ParseInt(str) ==
    IF Head(str) = Minus THEN 0 - DecimalValue(Tail(str), 0)
    ELSE DecimalValue(str, 0)

\* A recovery that backs up to the first offset whose byte fits, without
\* comparing the shifted prefix.
RECURSIVE RecoverLoopNoShift(_, _, _, _)
RecoverLoopNoShift(byte_target, original_offset, off, b) ==
    IF off <= 0 THEN off
    ELSE IF b # At(byte_target, off - 1)
         THEN RecoverLoopNoShift(byte_target, original_offset, off - 1, b)
         ELSE off

\* A recovery that only looks below the offset it started from.
RECURSIVE RecoverLoopStrict(_, _, _, _)
RecoverLoopStrict(byte_target, original_offset, off, b) ==
    IF off <= 0 THEN off
    ELSE LET o == off - 1
             offset_diff == original_offset - o
         IN  IF o + 1 = original_offset \/ b # At(byte_target, o)
             THEN RecoverLoopStrict(byte_target, original_offset, o, b)
             ELSE IF o = 0 THEN 1
             ELSE IF \A k \in 0 .. (o - 1) :
                        At(byte_target, k) = At(byte_target, k + offset_diff)
                  THEN o + 1
                  ELSE RecoverLoopStrict(byte_target, original_offset, o, b)

\* A recovery that gives up all progress on a mismatch.
RecoverLoopReset(byte_target, original_offset, off, b) == 0

(* The recovery loop shared by both finders: `while (offset > 0) { ... }'. *)
(* Returns the value of the local `offset' when the loop is left.          *)
RECURSIVE RecoverLoop(_, _, _, _)
RecoverLoop(byte_target, original_offset, off, b) ==
    IF off <= 0 THEN off
    ELSE LET o == off - 1
             offset_diff == original_offset - o
         IN  IF b # At(byte_target, o) THEN RecoverLoop(byte_target, original_offset, o, b)
             ELSE IF o = 0 THEN 1
             ELSE IF \A k \in 0 .. (o - 1) :
                        At(byte_target, k) = At(byte_target, k + offset_diff)
                  THEN o + 1
                  ELSE RecoverLoop(byte_target, original_offset, o, b)

----------------------------------------------------------------------------
(* singleFindUtil: the body of `for (let i ...)' for one byte. *)
SingleByte(byte_target, off, b) ==
    IF b = At(byte_target, off)
    THEN [found |-> (off + 1 = Len(byte_target)), offset |-> off + 1]
    ELSE [found |-> FALSE, offset |-> RecoverLoop(byte_target, off, off, b)]

(* singleFindUtil: the for loop over one chunk, from data[i] (1-based).     *)
(* n is the number of bytes of the chunk that were processed.              *)
RECURSIVE SingleScan(_, _, _, _)
SingleScan(byte_target, off, data, i) ==
    IF i > Len(data) THEN [found |-> FALSE, offset |-> off, n |-> Len(data)]
    ELSE LET r == SingleByte(byte_target, off, data[i])
         IN  IF r.found THEN [found |-> TRUE, offset |-> r.offset, n |-> i]
             ELSE SingleScan(byte_target, r.offset, data, i + 1)

(* multiFindUtil: what offsets[j] holds after the recovery loop has left    *)
(* `local' in the local variable offset: the loop is followed directly by  *)
(* the end of the for-j body, offsets[j] is not assigned.                  *)
StoredAfterRecovery(original_offset, local) == original_offset

(* multiFindUtil: the body of `for (let j ...)' for one target and byte.    *)
MultiTarget(byte_target, off, b) ==
    IF b = At(byte_target, off)
    THEN IF off + 1 = Len(byte_target)
         THEN [found |-> TRUE, offset |-> off]
         ELSE [found |-> FALSE, offset |-> off + 1]
    ELSE IF off = 0
         THEN [found |-> FALSE, offset |-> 0]
         ELSE [found |-> FALSE,
               offset |-> StoredAfterRecovery(off, RecoverLoop(byte_target, off, off, b))]

(* multiFindUtil: the for-j loop for one byte, from target j (1-based).     *)
RECURSIVE MultiByte(_, _, _, _)
MultiByte(byte_targets, offs, b, j) ==
    IF j > Len(byte_targets) THEN [ret |-> 0 - 1, offsets |-> offs]
    ELSE LET r == MultiTarget(byte_targets[j], offs[j], b)
         IN  IF r.found THEN [ret |-> j - 1, offsets |-> offs]
             ELSE MultiByte(byte_targets, [offs EXCEPT ![j] = r.offset], b, j + 1)

(* multiFindUtil: the for-i loop over one chunk, from data[i] (1-based).    *)
RECURSIVE MultiScan(_, _, _, _)
MultiScan(byte_targets, offs, data, i) ==
    IF i > Len(data) THEN [ret |-> 0 - 1, offsets |-> offs, n |-> Len(data)]
    ELSE LET r == MultiByte(byte_targets, offs, data[i], 1)
         IN  IF r.ret >= 0 THEN [ret |-> r.ret, offsets |-> r.offsets, n |-> i]
             ELSE MultiScan(byte_targets, r.offsets, data, i + 1)

ByteTargets == [j \in 1 .. Len(targets) |-> FromUTF8(targets[j])]

----------------------------------------------------------------------------
(* The environment. *)

Bytes == IF op = "parse" THEN ParseBytes ELSE FindBytes
StreamBound == IF op = "parse" THEN MaxParseStream ELSE MaxStream

Entering == pc = "entry" \/ spc = "entry"
Running == pc \in {"poll", "check", "pause"} \/ spc \in {"poll", "check"}

(* One byte arrives on the line and is put into the receive buffer. *)
Arrive ==
    /\ Entering \/ Running
    /\ Len(arrived) < StreamBound
    /\ \E b \in Bytes :
         /\ rx' = Append(rx, b)
         /\ arrived' = Append(arrived, b)
    /\ nEarly' = IF Entering \/ now < end_time THEN nEarly + 1 ELSE nEarly
    /\ UNCHANGED <<op, targets, timeout_ms, now, end_time>>
    /\ UNCHANGED <<mvars, svars, num_str>>
    /\ UNCHANGED cvars

(* The millisecond clock advances while a call runs. *)
Tick ==
    /\ Running
    /\ now < MaxTime
    /\ now' = now + 1
    /\ UNCHANGED <<op, targets, timeout_ms, end_time, rx, arrived, nEarly>>
    /\ UNCHANGED <<mvars, svars, num_str>>
    /\ UNCHANGED cvars

----------------------------------------------------------------------------
(* multiFindUtil *)

MultiInvalid == Len(targets) = 0 \/ timeout_ms < 0

\* An entry into a loop that tests the deadline before its first poll.
MultiEnterStepTestFirst ==
    IF MultiInvalid
    THEN /\ pc' = "done"
         /\ ret' = Threw(10)
         /\ UNCHANGED <<offsets, end_time>>
    ELSE /\ pc' = "check"
         /\ offsets' = [j \in 1 .. Len(targets) |-> 0]
         /\ end_time' = now + timeout_ms
         /\ UNCHANGED ret

MultiEnterStep ==
    IF MultiInvalid
    THEN /\ pc' = "done"
         /\ ret' = Threw(10)
         /\ UNCHANGED <<offsets, end_time>>
    ELSE /\ pc' = "poll"
         /\ offsets' = [j \in 1 .. Len(targets) |-> 0]
         /\ end_time' = now + timeout_ms
         /\ UNCHANGED ret

\* A poll that forgets the partial matches of the chunks before it.
MultiPollStepFresh(data) ==
    LET r == MultiScan(ByteTargets, [j \in 1 .. Len(targets) |-> 0], data, 1)
    IN  /\ offsets' = r.offsets
        /\ nproc' = nproc + r.n
        /\ ntaken' = ntaken + Len(data)
        /\ IF r.ret >= 0
           THEN pc' = "done" /\ ret' = Index(r.ret, 28)
           ELSE pc' = "check" /\ UNCHANGED ret

MultiPollStep(data) ==
    LET r == MultiScan(ByteTargets, offsets, data, 1)
    IN  /\ offsets' = r.offsets
        /\ nproc' = nproc + r.n
        /\ ntaken' = ntaken + Len(data)
        /\ IF r.ret >= 0
           THEN pc' = "done" /\ ret' = Index(r.ret, 28)
           ELSE pc' = "check" /\ UNCHANGED ret

\* A deadline test that lets the loop go on while bytes are waiting.
MultiCheckStepDrain ==
    IF now < end_time \/ rx # <<>>
    THEN pc' = "poll" /\ UNCHANGED ret
    ELSE pc' = "done" /\ ret' = Index(0 - 1, 62)

\* A deadline test that never gives up.
MultiCheckStepForever == pc' = "poll" /\ UNCHANGED ret

MultiCheckStep ==
    IF now < end_time
    THEN pc' = "poll" /\ UNCHANGED ret
    ELSE pc' = "done" /\ ret' = Index(0 - 1, 62)

MultiEnter ==
    /\ op = "multi" /\ pc = "entry"
    /\ MultiEnterStep
    /\ UNCHANGED <<op, targets, timeout_ms, now, rx, arrived, nEarly>>
    /\ UNCHANGED <<nproc, ntaken, svars, num_str>>
    /\ UNCHANGED cvars

MultiPoll ==
    /\ op = "multi" /\ pc = "poll"
    /\ MultiPollStep(ReadBuffer(rx, 0))
    /\ rx' = AfterRead(rx, ReadBuffer(rx, 0))
    /\ UNCHANGED <<op, targets, timeout_ms, now, end_time, arrived, nEarly>>
    /\ UNCHANGED <<svars, num_str>>
    /\ UNCHANGED cvars

MultiCheck ==
    /\ op = "multi" /\ pc = "check"
    /\ MultiCheckStep
    /\ UNCHANGED envvars
    /\ UNCHANGED <<offsets, nproc, ntaken, svars, num_str>>
    /\ UNCHANGED cvars

----------------------------------------------------------------------------
(* singleFindUtil *)

SingleInvalid == Len(targets[1]) = 0 \/ timeout_ms < 0

SingleEnterStep ==
    IF SingleInvalid
    THEN /\ spc' = "done"
         /\ sret' = Threw(73)
         /\ UNCHANGED <<offset, end_time>>
    ELSE /\ spc' = "poll"
         /\ offset' = 0
         /\ end_time' = now + timeout_ms
         /\ UNCHANGED sret

SinglePollStep(data) ==
    LET r == SingleScan(FromUTF8(targets[1]), offset, data, 1)
    IN  /\ offset' = r.offset
        /\ snproc' = snproc + r.n
        /\ sntaken' = sntaken + Len(data)
        /\ IF r.found
           THEN spc' = "done" /\ sret' = Bool(TRUE, 85)
           ELSE spc' = "check" /\ UNCHANGED sret

SingleCheckStep ==
    IF now < end_time
    THEN spc' = "poll" /\ UNCHANGED sret
    ELSE spc' = "done" /\ sret' = Bool(FALSE, 114)

SingleEnter ==
    /\ op = "single" /\ spc = "entry"
    /\ SingleEnterStep
    /\ UNCHANGED <<op, targets, timeout_ms, now, rx, arrived, nEarly>>
    /\ UNCHANGED <<snproc, sntaken, mvars, num_str>>
    /\ UNCHANGED cvars

SinglePoll ==
    /\ op = "single" /\ spc = "poll"
    /\ SinglePollStep(ReadBuffer(rx, 0))
    /\ rx' = AfterRead(rx, ReadBuffer(rx, 0))
    /\ UNCHANGED <<op, targets, timeout_ms, now, end_time, arrived, nEarly>>
    /\ UNCHANGED <<mvars, num_str>>
    /\ UNCHANGED cvars

SingleCheck ==
    /\ op = "single" /\ spc = "check"
    /\ SingleCheckStep
    /\ UNCHANGED envvars
    /\ UNCHANGED <<offset, snproc, sntaken, mvars, num_str>>
    /\ UNCHANGED cvars

----------------------------------------------------------------------------
(* singleFindUtil(P, t) and multiFindUtil([P], t) run side by side on the   *)
(* same stream and clock: each poll hands both the same chunk, each        *)
(* deadline test shows both the same time.  A call that has returned       *)
(* stays as it is while the other goes on.                                 *)

PairEnter ==
    /\ op = "pair" /\ pc = "entry" /\ spc = "entry"
    /\ MultiEnterStep
    /\ SingleEnterStep
    /\ UNCHANGED <<op, targets, timeout_ms, now, rx, arrived, nEarly>>
    /\ UNCHANGED <<nproc, ntaken, snproc, sntaken, num_str>>
    /\ UNCHANGED cvars

PairPoll ==
    /\ op = "pair"
    /\ pc = "poll" \/ spc = "poll"
    /\ IF pc = "poll" THEN MultiPollStep(ReadBuffer(rx, 0)) ELSE UNCHANGED mvars
    /\ IF spc = "poll" THEN SinglePollStep(ReadBuffer(rx, 0)) ELSE UNCHANGED svars
    /\ rx' = AfterRead(rx, ReadBuffer(rx, 0))
    /\ UNCHANGED <<op, targets, timeout_ms, now, end_time, arrived, nEarly, num_str>>
    /\ UNCHANGED cvars

PairCheck ==
    /\ op = "pair"
    /\ pc = "check" \/ spc = "check"
    /\ IF pc = "check" THEN MultiCheckStep ELSE UNCHANGED <<pc, ret>>
    /\ IF spc = "check" THEN SingleCheckStep ELSE UNCHANGED <<spc, sret>>
    /\ UNCHANGED envvars
    /\ UNCHANGED <<offsets, nproc, ntaken, offset, snproc, sntaken, num_str>>
    /\ UNCHANGED cvars

----------------------------------------------------------------------------
(* skipNext *)

SkipInvalid == Len(targets[1]) = 0 \/ timeout_ms < 0

SkipEnter ==
    /\ op = "skip" /\ pc = "entry"
    /\ IF SkipInvalid
       THEN /\ pc' = "done"
            /\ ret' = Threw(125)
            /\ UNCHANGED end_time
       ELSE /\ pc' = "poll"
            /\ end_time' = now + timeout_ms
            /\ UNCHANGED ret
    /\ UNCHANGED <<op, targets, timeout_ms, now, rx, arrived, nEarly>>
    /\ UNCHANGED <<offsets, nproc, ntaken, svars, num_str>>
    /\ UNCHANGED cvars

SkipPoll ==
    /\ op = "skip" /\ pc = "poll"
    /\ LET data == ReadBuffer(rx, 1)
       IN  /\ rx' = AfterRead(rx, data)
           /\ ntaken' = ntaken + Len(data)
           /\ nproc' = nproc + Len(data)
           /\ IF Len(data) > 0
              THEN /\ pc' = "done"
                   /\ ret' = Bool(data[1] = At(FromUTF8(targets[1]), 0), 131)
              ELSE /\ pc' = "check"
                   /\ UNCHANGED ret
    /\ UNCHANGED <<op, targets, timeout_ms, now, end_time, arrived, nEarly>>
    /\ UNCHANGED <<offsets, svars, num_str>>
    /\ UNCHANGED cvars

SkipCheck ==
    /\ op = "skip" /\ pc = "check"
    /\ IF now < end_time
       THEN pc' = "poll" /\ UNCHANGED ret
       ELSE pc' = "done" /\ ret' = Bool(FALSE, 134)
    /\ UNCHANGED envvars
    /\ UNCHANGED <<offsets, nproc, ntaken, svars, num_str>>
    /\ UNCHANGED cvars

----------------------------------------------------------------------------
(* parseNumber *)

\* A parseNumber that takes a lone "-" for a number.
ParseResultLoneMinus(str) ==
    IF str # <<>> THEN Number(ParseInt(str), 162) ELSE NaN(164)

\* What parseNumber returns when a byte that ends the number was read.
ParseResult(str) ==
    IF str # <<>> /\ str # <<Minus>> THEN Number(ParseInt(str), 162) ELSE NaN(164)

\* What parseNumber returns when the while-test fails.
ParseTimeout(str) == NaN(167)

ParseEnter ==
    /\ op = "parse" /\ pc = "entry"
    /\ IF timeout_ms < 0
       THEN /\ pc' = "done"
            /\ ret' = Threw(145)
            /\ UNCHANGED <<end_time, num_str>>
       ELSE /\ pc' = "poll"
            /\ end_time' = now + timeout_ms
            /\ num_str' = <<>>
            /\ UNCHANGED ret
    /\ UNCHANGED <<op, targets, timeout_ms, now, rx, arrived, nEarly>>
    /\ UNCHANGED <<offsets, nproc, ntaken, svars>>
    /\ UNCHANGED cvars

ParsePoll ==
    /\ op = "parse" /\ pc = "poll"
    /\ LET data == ReadBuffer(rx, 1)
       IN  /\ rx' = AfterRead(rx, data)
           /\ ntaken' = ntaken + Len(data)
           /\ nproc' = nproc + Len(data)
           /\ IF Len(data) = 0
              THEN /\ pc' = "pause"
                   /\ UNCHANGED <<ret, num_str>>
              ELSE LET char == data[1]
                   IN  IF (char = Minus /\ num_str = <<>>) \/ IsDigit(char)
                       THEN /\ num_str' = Append(num_str, char)
                            /\ pc' = "check"
                            /\ UNCHANGED ret
                       ELSE /\ pc' = "done"
                            /\ ret' = ParseResult(num_str)
                            /\ UNCHANGED num_str
    /\ UNCHANGED <<op, targets, timeout_ms, now, end_time, arrived, nEarly>>
    /\ UNCHANGED <<offsets, svars>>
    /\ UNCHANGED cvars

(* basic.pause(1): the call sleeps for a millisecond, then `continue'      *)
(* goes to the while-test.                                                 *)
ParsePause ==
    /\ op = "parse" /\ pc = "pause"
    /\ now' = now + 1
    /\ pc' = "check"
    /\ UNCHANGED <<op, targets, timeout_ms, end_time, rx, arrived, nEarly>>
    /\ UNCHANGED <<offsets, ret, nproc, ntaken, svars, num_str>>
    /\ UNCHANGED cvars

ParseCheck ==
    /\ op = "parse" /\ pc = "check"
    /\ IF now < end_time
       THEN pc' = "poll" /\ UNCHANGED ret
       ELSE pc' = "done" /\ ret' = ParseTimeout(num_str)
    /\ UNCHANGED envvars
    /\ UNCHANGED <<offsets, nproc, ntaken, svars, num_str>>
    /\ UNCHANGED cvars

----------------------------------------------------------------------------
(* Specifications: one per function under call. *)

\* A function of esp_at_stream_util.ts called on its own, by no command.
NoCommand ==
    /\ cpc = "none"
    /\ command = <<>>
    /\ success_target = <<>>
    /\ ctimeout = 0
    /\ cend = 0
    /\ tx = <<>>
    /\ cret = None
    /\ nlines = 0
    /\ ev = <<>>

InitCommon ==
    /\ now = 0
    /\ end_time = 0
    /\ rx = <<>>
    /\ arrived = <<>>
    /\ nEarly = 0
    /\ offsets = <<>>
    /\ ret = None
    /\ nproc = 0
    /\ ntaken = 0
    /\ offset = 0
    /\ sret = None
    /\ snproc = 0
    /\ sntaken = 0
    /\ num_str = <<>>
    /\ timeout_ms \in Timeouts
    /\ NoCommand

InitMulti ==
    /\ op = "multi"
    /\ targets \in TargetLists
    /\ pc = "entry"
    /\ spc = "idle"
    /\ InitCommon

InitSingle ==
    /\ op = "single"
    /\ targets \in { <<t>> : t \in TargetPool }
    /\ pc = "idle"
    /\ spc = "entry"
    /\ InitCommon

InitPair ==
    /\ op = "pair"
    /\ targets \in { <<t>> : t \in TargetPool \ { <<>> } }
    /\ pc = "entry"
    /\ spc = "entry"
    /\ InitCommon

InitSkip ==
    /\ op = "skip"
    /\ targets \in { <<t>> : t \in TargetPool }
    /\ pc = "entry"
    /\ spc = "idle"
    /\ InitCommon

InitParse ==
    /\ op = "parse"
    /\ targets = <<>>
    /\ pc = "entry"
    /\ spc = "idle"
    /\ InitCommon

NextMulti == Arrive \/ Tick \/ MultiEnter \/ MultiPoll \/ MultiCheck
NextSingle == Arrive \/ Tick \/ SingleEnter \/ SinglePoll \/ SingleCheck
NextPair == Arrive \/ Tick \/ PairEnter \/ PairPoll \/ PairCheck

NextSkip == Arrive \/ Tick \/ SkipEnter \/ SkipPoll \/ SkipCheck
NextParse == Arrive \/ Tick \/ ParseEnter \/ ParsePoll \/ ParsePause \/ ParseCheck

SpecSkip == InitSkip /\ [][NextSkip]_vars
SpecParse == InitParse /\ [][NextParse]_vars
NextFind == NextMulti \/ NextSingle

----------------------------------------------------------------------------
(* Calls on a clock that moves while the loop body runs: one readBuffer    *)
(* and the processing of its chunk take 0 .. IterTicks milliseconds, a     *)
(* clock read and the comparison with end_time take none.                  *)

IterTicks == 1

TimedMultiPoll ==
    /\ op = "multi" /\ pc = "poll"
    /\ MultiPollStep(ReadBuffer(rx, 0))
    /\ rx' = AfterRead(rx, ReadBuffer(rx, 0))
    /\ \E d \in 0 .. IterTicks : now' = now + d
    /\ UNCHANGED <<op, targets, timeout_ms, end_time, arrived, nEarly>>
    /\ UNCHANGED <<svars, num_str>>
    /\ UNCHANGED cvars

TimedSinglePoll ==
    /\ op = "single" /\ spc = "poll"
    /\ SinglePollStep(ReadBuffer(rx, 0))
    /\ rx' = AfterRead(rx, ReadBuffer(rx, 0))
    /\ \E d \in 0 .. IterTicks : now' = now + d
    /\ UNCHANGED <<op, targets, timeout_ms, end_time, arrived, nEarly>>
    /\ UNCHANGED <<mvars, num_str>>
    /\ UNCHANGED cvars

TimedSkipPoll ==
    /\ op = "skip" /\ pc = "poll"
    /\ LET data == ReadBuffer(rx, 1)
       IN  /\ rx' = AfterRead(rx, data)
           /\ ntaken' = ntaken + Len(data)
           /\ nproc' = nproc + Len(data)
           /\ IF Len(data) > 0
              THEN /\ pc' = "done"
                   /\ ret' = Bool(data[1] = At(FromUTF8(targets[1]), 0), 131)
              ELSE /\ pc' = "check"
                   /\ UNCHANGED ret
    /\ \E d \in 0 .. IterTicks : now' = now + d
    /\ UNCHANGED <<op, targets, timeout_ms, end_time, arrived, nEarly>>
    /\ UNCHANGED <<offsets, svars, num_str>>
    /\ UNCHANGED cvars

TimedParsePoll ==
    /\ op = "parse" /\ pc = "poll"
    /\ LET data == ReadBuffer(rx, 1)
       IN  /\ rx' = AfterRead(rx, data)
           /\ ntaken' = ntaken + Len(data)
           /\ nproc' = nproc + Len(data)
           /\ IF Len(data) = 0
              THEN /\ pc' = "pause"
                   /\ UNCHANGED <<ret, num_str>>
              ELSE LET char == data[1]
                   IN  IF (char = Minus /\ num_str = <<>>) \/ IsDigit(char)
                       THEN /\ num_str' = Append(num_str, char)
                            /\ pc' = "check"
                            /\ UNCHANGED ret
                       ELSE /\ pc' = "done"
                            /\ ret' = ParseResult(num_str)
                            /\ UNCHANGED num_str
    /\ \E d \in 0 .. IterTicks : now' = now + d
    /\ UNCHANGED <<op, targets, timeout_ms, end_time, arrived, nEarly>>
    /\ UNCHANGED <<offsets, svars>>
    /\ UNCHANGED cvars

InitTimed == InitMulti \/ InitSingle \/ InitSkip \/ InitParse

NextTimed ==
    \/ Arrive
    \/ MultiEnter \/ TimedMultiPoll \/ MultiCheck
    \/ SingleEnter \/ TimedSinglePoll \/ SingleCheck
    \/ SkipEnter \/ TimedSkipPoll \/ SkipCheck
    \/ ParseEnter \/ TimedParsePoll \/ ParsePause \/ ParseCheck

SpecTimed == InitTimed /\ [][NextTimed]_vars

\* Calls of any of the four functions with timeout_ms = 0.
InitZero ==
    /\ InitMulti \/ InitSingle \/ InitSkip \/ InitParse
    /\ timeout_ms = 0
NextAll == NextFind \/ NextSkip \/ NextParse
SpecZero == InitZero /\ [][NextAll]_vars
SpecFind == (InitMulti \/ InitSingle) /\ [][NextFind]_vars
SpecMulti == InitMulti /\ [][NextMulti]_vars
SpecSingle == InitSingle /\ [][NextSingle]_vars
SpecPair == InitPair /\ [][NextPair]_vars

\* The finders on a clock that advances and a processor that keeps running
\* the call: weak fairness of the clock and of every step of the call.  A
\* poll is enabled exactly when the call stands at its readBuffer, and its
\* weak fairness is written with that condition.
Polling == (op = "multi" /\ pc = "poll") \/ (op = "single" /\ spc = "poll")
FindPoll == MultiPoll \/ SinglePoll
FindStep == MultiEnter \/ MultiCheck \/ SingleEnter \/ SingleCheck
SpecFindLive ==
    /\ SpecFind
    /\ WF_vars(Tick)
    /\ WF_vars(FindStep)
    /\ ([]<>(~Polling) \/ []<><<FindPoll>>_vars)

----------------------------------------------------------------------------
(* Vocabulary of the properties. *)

\* The pattern p occupies the n bytes of s that end at position n.
EndsAt(p, s, n) ==
    /\ Len(p) <= n
    /\ n <= Len(s)
    /\ SubSeq(s, n - Len(p) + 1, n) = p

\* The pattern p occurs contiguously somewhere in s.
Contains(s, p) == \E n \in 1 .. Len(s) : EndsAt(p, s, n)

Rest(s, n) == SubSeq(s, n + 1, Len(s))

MultiReturned == op = "multi" /\ pc = "done" /\ ret.kind = "index"
MultiMatched == MultiReturned /\ ret.val >= 0
SingleReturned == op = "single" /\ spc = "done" /\ sret.kind \in {"true", "false"}
SingleMatched == SingleReturned /\ sret.kind = "true"

\* The bytes a call has removed from the receive buffer, in order.
Taken == SubSeq(arrived, 1, ntaken)
STaken == SubSeq(arrived, 1, sntaken)
\* The bytes that arrived while the deadline had not passed.
Early == SubSeq(arrived, 1, nEarly)

(* The receive buffer holds exactly the arrived bytes no call has taken. *)
StreamConsistent ==
    /\ nproc <= ntaken /\ snproc <= sntaken
    /\ op \in {"multi", "skip", "parse"} => rx = Rest(arrived, ntaken)
    /\ op = "single" => rx = Rest(arrived, sntaken)

----------------------------------------------------------------------------
(* C1: multiFindUtil returns an index j >= 0 only if the bytes of          *)
(* targets[j] occur contiguously in the bytes processed during the call,   *)
(* ending exactly at the last byte processed.                              *)
C1_MatchIsContiguous ==
    MultiMatched => EndsAt(ByteTargets[ret.val + 1], arrived, nproc)

(* C2: when multiFindUtil or singleFindUtil returns a match, the receive   *)
(* buffer still holds every byte that followed the completing byte: the    *)
(* next byte a later read obtains is the one right after it.               *)
C2_NothingTakenPastMatch ==
    /\ MultiMatched => rx = Rest(arrived, nproc)
    /\ SingleMatched => rx = Rest(arrived, snproc)

(* C3 as stated: if the bytes of a non-empty target arrived contiguously   *)
(* before the deadline passed, the call does not end without a match.      *)
C3_FoundIfArrivedInTime ==
    /\ (MultiReturned /\ ret.val < 0) =>
          \A j \in 1 .. Len(targets) :
              targets[j] # <<>> => ~Contains(Early, ByteTargets[j])
    /\ (SingleReturned /\ sret.kind = "false") =>
          ~Contains(Early, FromUTF8(targets[1]))

(* C3 as amended: if the bytes of a non-empty target occur contiguously    *)
(* among the bytes the call's polls obtained, the call returns a match; a  *)
(* call that ends without a match has polled no contiguous occurrence.     *)
C3_FoundIfPolled ==
    /\ (MultiReturned /\ ret.val < 0) =>
          \A j \in 1 .. Len(targets) :
              targets[j] # <<>> => ~Contains(Taken, ByteTargets[j])
    /\ (SingleReturned /\ sret.kind = "false") =>
          ~Contains(STaken, FromUTF8(targets[1]))

\* singleFindUtil("AAB") finds the target in 'A','A','A','B'.
C3_Witness ==
    /\ SingleMatched
    /\ targets = << <<65, 65, 66>> >>
    /\ arrived = <<65, 65, 65, 66>>
    /\ snproc = 4

(* C4: multiFindUtil returns at the earliest byte position at which any    *)
(* target's contiguous occurrence completes, and among the targets that    *)
(* complete on that byte it returns the lowest index.                      *)
C4_EarliestThenLowest ==
    MultiMatched =>
        /\ EndsAt(ByteTargets[ret.val + 1], arrived, nproc)
        /\ \A k \in 1 .. Len(targets) :
             targets[k] # <<>> =>
                /\ \A m \in 1 .. (nproc - 1) : ~EndsAt(ByteTargets[k], arrived, m)
                /\ k < ret.val + 1 => ~EndsAt(ByteTargets[k], arrived, nproc)

(* C5: on the same stream and clock, singleFindUtil(P, t) returns true     *)
(* exactly when multiFindUtil([P], t) returns 0, and both stop after the   *)
(* same number of processed bytes.                                         *)
C5_SingleIsMultiOfOne ==
    (op = "pair" /\ pc = "done" /\ spc = "done") =>
        /\ (sret.kind = "true") <=> (ret.kind = "index" /\ ret.val = 0)
        /\ (sret.kind = "throw") <=> (ret.kind = "throw")
        /\ snproc = nproc

(* C6: multiFindUtil throws, before reading any byte, whenever the target  *)
(* list is empty, a target is the empty string, or timeout_ms is negative. *)
C6_RejectsBadArguments ==
    (/\ op = "multi"
     /\ pc # "entry"
     /\ \/ Len(targets) = 0
        \/ \E j \in 1 .. Len(targets) : targets[j] = <<>>
        \/ timeout_ms < 0)
    => (pc = "done" /\ ret.kind = "throw" /\ ntaken = 0)

----------------------------------------------------------------------------
(* parseNumber and skipNext. *)

\* The value of a run of digits, read from its last digit.
RECURSIVE ValueOf(_)
ValueOf(digits) ==
    IF digits = <<>> THEN 0
    ELSE 10 * ValueOf(SubSeq(digits, 1, Len(digits) - 1))
         + (digits[Len(digits)] - 48)

\* s is one or more digits, optionally preceded by one '-'.
IsNumeral(s) ==
    /\ s # <<>>
    /\ s # <<45>>
    /\ \A i \in 1 .. Len(s) :
         (s[i] >= 48 /\ s[i] <= 57) \/ (i = 1 /\ s[i] = 45)

SignedValue(s) == IF s[1] = 45 THEN 0 - ValueOf(Tail(s)) ELSE ValueOf(s)

ParseReturned == op = "parse" /\ pc = "done" /\ ret.kind # "throw"

\* The call has taken a numeral and, after it, one byte that is no digit.
NumeralThenTerminator ==
    /\ ntaken >= 2
    /\ IsNumeral(SubSeq(arrived, 1, ntaken - 1))
    /\ ~(arrived[ntaken] >= 48 /\ arrived[ntaken] <= 57)

\* The last byte the call took ended the accumulation.
TerminatorSeen == ntaken = Len(num_str) + 1

(* C7: parseNumber returns a number exactly when it has taken a numeral    *)
(* (digits, optionally preceded by one '-') followed by one byte that is   *)
(* not a digit (a '-' that is not the first byte included); the number is  *)
(* the decimal value of the numeral, and the bytes taken are exactly the   *)
(* numeral and that terminating byte, so the byte after the terminator is  *)
(* the next unread byte.                                                   *)
C7_ParseTakesThroughTerminator ==
    ParseReturned =>
        /\ (ret.kind = "number") <=> NumeralThenTerminator
        /\ ret.kind = "number" =>
              /\ ret.val = SignedValue(SubSeq(arrived, 1, ntaken - 1))
              /\ rx = Rest(arrived, ntaken)

\* '1','2','1','a','2' gives 121 and leaves '2'.
C7_Witness ==
    /\ ParseReturned
    /\ arrived = <<49, 50, 49, 97, 50>>
    /\ ret = Number(121, 162)
    /\ rx = <<50>>

(* C8: parseNumber fails at the no-digits return (NaN, line 164) when a    *)
(* terminating byte is read while the accumulated text is empty or is      *)
(* only '-', and fails at the timeout return (NaN, line 167), with the     *)
(* deadline passed, when it ends without having read a terminating byte,   *)
(* whatever was accumulated until then.                                    *)
C8_ParseFailureModes ==
    ParseReturned =>
        /\ (TerminatorSeen /\ num_str \in {<<>>, <<45>>}) => ret = NaN(164)
        /\ ~TerminatorSeen => (ret = NaN(167) /\ now >= end_time)
        /\ ret = NaN(164) => (TerminatorSeen /\ num_str \in {<<>>, <<45>>})
        /\ ret = NaN(167) => ~TerminatorSeen

\* '-','a' fails at the no-digits return.
C8_Witness ==
    /\ ParseReturned
    /\ arrived = <<45, 97>>
    /\ ntaken = 2
    /\ ret = NaN(164)

(* C9: parseNumber returns -1 upon timeout or failure.                     *)
C9_FailureReturnsMinusOne ==
    (ParseReturned /\ ~NumeralThenTerminator) =>
        (ret.kind = "number" /\ ret.val = 0 - 1)

----------------------------------------------------------------------------
(* The recovery of a partial match. *)

\* p's first n bytes are the last n bytes of s.
PrefixIsSuffix(p, s, n) ==
    /\ n <= Len(p)
    /\ n <= Len(s)
    /\ SubSeq(p, 1, n) = SubSeq(s, Len(s) - n + 1, Len(s))

\* The length of the longest prefix of p that is a suffix of s.
LongestPrefixSuffix(p, s) ==
    CHOOSE n \in 0 .. Len(p) :
        /\ PrefixIsSuffix(p, s, n)
        /\ \A m \in (n + 1) .. Len(p) : ~PrefixIsSuffix(p, s, m)

SProcessed == SubSeq(arrived, 1, snproc)
Processed == SubSeq(arrived, 1, nproc)

(* C14: in singleFindUtil, after every processed byte that does not        *)
(* complete the match, offset is the length of the longest prefix of the   *)
(* pattern that is a suffix of all bytes processed so far in the call,     *)
(* and 0 <= offset < length of the pattern.                                *)
C14_OffsetIsLongestPrefixSuffix ==
    (op = "single" /\ spc \in {"poll", "check"}) =>
        /\ offset = LongestPrefixSuffix(FromUTF8(targets[1]), SProcessed)
        /\ 0 <= offset
        /\ offset < Len(FromUTF8(targets[1]))

\* "AAB" fed 'A','A','A': the mismatching third byte leaves offset 2.
C14_Witness ==
    /\ op = "single" /\ spc = "check"
    /\ targets = << <<65, 65, 66>> >>
    /\ SProcessed = <<65, 65, 65>>
    /\ offset = 2

ZeroOffsets == [j \in 1 .. Len(targets) |-> 0]

\* The offsets multiFindUtil held before the last processed byte.
OffsetsBeforeLast ==
    MultiScan(ByteTargets, ZeroOffsets,
              SubSeq(Processed, 1, nproc - 1), 1).offsets

LastProcessed == Processed[nproc]

(* C15: in multiFindUtil, when a byte mismatches a pattern whose offset is *)
(* > 0 and no non-empty prefix of the pattern is a suffix of the bytes     *)
(* processed so far, the pattern's stored offset is 0 before the next byte *)
(* is processed ("ABAB" fed 'A','B','C' has offset 0 afterwards); fed      *)
(* 'A','B','A','B' its offsets are 1,2,3 and the match completes on the    *)
(* 4th byte.                                                               *)
C15_MismatchResetsStoredOffset ==
    /\ (op = "multi" /\ pc \in {"poll", "check"} /\ nproc > 0) =>
          \A j \in 1 .. Len(targets) :
              ( /\ OffsetsBeforeLast[j] > 0
                /\ LastProcessed # At(ByteTargets[j], OffsetsBeforeLast[j])
                /\ LongestPrefixSuffix(ByteTargets[j], Processed) = 0 )
              => offsets[j] = 0
    /\ (op = "multi" /\ targets = << <<65, 66, 65, 66>> >>) =>
          /\ (pc \in {"poll", "check"} /\ Processed = <<65>>) => offsets[1] = 1
          /\ (pc \in {"poll", "check"} /\ Processed = <<65, 66>>) => offsets[1] = 2
          /\ (pc \in {"poll", "check"} /\ Processed = <<65, 66, 65>>) => offsets[1] = 3
          /\ (pc = "done" /\ Processed = <<65, 66, 65, 66>>) =>
                ret = Index(0, 28)
          /\ (MultiMatched /\ SubSeq(arrived, 1, 2) = <<65, 66>>) => nproc = 4

\* Offset n fits after byte b mismatched p at offset off: p's n-th byte is
\* b and p's first n - 1 bytes are the last n - 1 bytes of the matched run.
Fits(p, off, b, n) ==
    /\ n >= 1
    /\ p[n] = b
    /\ SubSeq(p, 1, n - 1) = SubSeq(p, off - n + 2, off)

\* The largest fitting offset among 1 .. top, or 0.
LargestFit(p, off, b, top) ==
    CHOOSE n \in 0 .. top :
        /\ n = 0 \/ Fits(p, off, b, n)
        /\ \A m \in (n + 1) .. top : ~Fits(p, off, b, m)

\* The offset singleFindUtil held before the last processed byte.
OffsetBeforeLast ==
    SingleScan(FromUTF8(targets[1]), 0,
               SubSeq(SProcessed, 1, snproc - 1), 1).offset

SingleMismatched ==
    /\ op = "single" /\ spc \in {"poll", "check"} /\ snproc > 0
    /\ OffsetBeforeLast > 0
    /\ SProcessed[snproc] # At(FromUTF8(targets[1]), OffsetBeforeLast)

MultiMismatched(j) ==
    /\ op = "multi" /\ pc \in {"poll", "check"} /\ nproc > 0
    /\ OffsetsBeforeLast[j] > 0
    /\ LastProcessed # At(ByteTargets[j], OffsetsBeforeLast[j])

----------------------------------------------------------------------------
(* Independence of the chunking. *)

\* What the finders make of all bytes they have taken, handed over as one
\* chunk to a call that has just been entered.
MultiInOneChunk == MultiScan(ByteTargets, ZeroOffsets, Taken, 1)
SingleInOneChunk == SingleScan(FromUTF8(targets[1]), 0, STaken, 1)

(* C17: the value returned by multiFindUtil and singleFindUtil depends     *)
(* only on the sequence of bytes delivered, not on how the byte source     *)
(* splits it into chunks: however the bytes polled by a call were split,   *)
(* the return value and the position of the completing byte are those of   *)
(* the same bytes delivered as one chunk, and so are the offsets between   *)
(* chunks.                                                                 *)
C17_ChunkingDoesNotMatter ==
    /\ (op = "multi" /\ pc \in {"poll", "check"} /\ ret = None) =>
          /\ MultiInOneChunk.ret = 0 - 1
          /\ MultiInOneChunk.offsets = offsets
          /\ nproc = ntaken
    /\ MultiReturned =>
          /\ ret.val = MultiInOneChunk.ret
          /\ nproc = MultiInOneChunk.n
    /\ (op = "single" /\ spc \in {"poll", "check"} /\ sret = None) =>
          /\ ~SingleInOneChunk.found
          /\ SingleInOneChunk.offset = offset
          /\ snproc = sntaken
    /\ SingleReturned =>
          /\ SingleMatched = SingleInOneChunk.found
          /\ snproc = SingleInOneChunk.n

\* "AB" split after the 'A': the first poll took 'A', the 'B' waits for
\* the second.
C17_Witness ==
    /\ op = "multi" /\ pc = "poll"
    /\ targets = << <<65, 66>> >>
    /\ Taken = <<65>>
    /\ offsets = <<1>>
    /\ rx = <<66>>

----------------------------------------------------------------------------
(* The first poll. *)

\* The call has made its first poll without throwing.
PolledOnce ==
    \/ op \in {"multi", "skip", "parse"}
          /\ pc \in {"check", "pause", "done"} /\ ret.kind # "throw"
    \/ op = "single" /\ spc \in {"check", "done"} /\ sret.kind # "throw"

(* C18: each of multiFindUtil, singleFindUtil, skipNext and parseNumber    *)
(* polls the byte source at least once before its first deadline test, so  *)
(* with timeout_ms = 0 (when Early is the bytes waiting at entry) bytes    *)
(* already available are still read: a target fully present in the first   *)
(* chunk is found, skipNext consumes and compares one available byte, and  *)
(* the bytes read are gone from the stream.                                *)
C18_PollsBeforeDeadlineTest ==
    (timeout_ms = 0 /\ PolledOnce) =>
        /\ StreamConsistent
        /\ op = "multi" =>
              /\ ntaken >= nEarly
              /\ (\E j \in 1 .. Len(targets) :
                      targets[j] # <<>> /\ Contains(Early, ByteTargets[j]))
                 => MultiMatched
        /\ op = "single" =>
              /\ sntaken >= nEarly
              /\ Contains(Early, FromUTF8(targets[1])) => SingleMatched
        /\ (op = "skip" /\ nEarly >= 1) =>
              /\ pc = "done"
              /\ ntaken = 1
              /\ ret = Bool(arrived[1] = FromUTF8(targets[1])[1], 131)
        /\ (op = "parse" /\ nEarly >= 1) => ntaken >= 1

\* multiFindUtil(["AB"], 0) entered with 'A','B','C' waiting: index 0, and
\* all three bytes are gone.
C18_Witness ==
    /\ timeout_ms = 0 /\ op = "multi" /\ pc = "done"
    /\ targets = << <<65, 66>> >>
    /\ Early = <<65, 66, 67>>
    /\ ret = Index(0, 28)
    /\ now = 0
    /\ rx = <<>>

----------------------------------------------------------------------------
(* The time a call takes. *)

\* The call has returned a value (it did not throw).
Returned ==
    \/ op \in {"multi", "skip", "parse"} /\ pc = "done" /\ ret.kind # "throw"
    \/ op = "single" /\ spc = "done" /\ sret.kind # "throw"

\* The time of entry: end_time is set to it plus timeout_ms on entry.
EntryTime == end_time - timeout_ms

\* One loop body, and the basic.pause(1) of parseNumber.
Slack == IterTicks + 1

(* C11: for any call of multiFindUtil, singleFindUtil, skipNext or         *)
(* parseNumber, the time from entry to return never exceeds timeout_ms     *)
(* plus a fixed slack (the time of one loop body and one pause), whether   *)
(* or not a match occurs and however many bytes each poll delivers; a call *)
(* still running is never further than that from its entry either.         *)
C11_ReturnsWithinTimeoutPlusSlack ==
    /\ Returned => now - EntryTime <= timeout_ms + Slack
    /\ (Running /\ ~Entering) => now - EntryTime <= timeout_ms + Slack

\* parseNumber(0): the first poll finds nothing and takes a millisecond,
\* the pause takes another, the deadline test fails: NaN after timeout_ms
\* plus the whole slack.
C11_Witness ==
    /\ op = "parse" /\ pc = "done" /\ ret = NaN(167)
    /\ timeout_ms = 0
    /\ ntaken = 0
    /\ now - EntryTime = timeout_ms + Slack

----------------------------------------------------------------------------
(* Termination. *)

CallDone == (op = "multi" /\ pc = "done") \/ (op = "single" /\ spc = "done")

(* C12: every call of multiFindUtil and singleFindUtil eventually returns  *)
(* provided the clock advances; once a deadline test finds the deadline    *)
(* passed with no pattern complete, multiFindUtil returns -1 and           *)
(* singleFindUtil returns false, whether no byte ever arrived or bytes     *)
(* kept arriving without completing a pattern.                             *)
C12_EventuallyReturns ==
    /\ <>CallDone
    /\ (op = "multi" /\ pc = "check" /\ now >= end_time)
          ~> (pc = "done" /\ ret = Index(0 - 1, 62))
    /\ (op = "single" /\ spc = "check" /\ now >= end_time)
          ~> (spc = "done" /\ sret = Bool(FALSE, 114))

\* multiFindUtil(["AB"], 1) that was fed 'A','C','A' over two polls and
\* gave up at the deadline.
C12_Witness ==
    /\ op = "multi" /\ pc = "done" /\ ret = Index(0 - 1, 62)
    /\ targets = << <<65, 66>> >>
    /\ timeout_ms = 1 /\ now >= end_time
    /\ Processed = <<65, 67, 65>>
    /\ nEarly = 3

----------------------------------------------------------------------------
(* The command layer (src/unnamed/part_000): writeCommand, restart and     *)
(* cancelSend, which write a request and hand literal targets to the       *)
(* finders.  The module answers in whole lines; the clock is followed from *)
(* deadline to deadline.                                                   *)

\* most response lines the module sends during one command
MaxResponses == 3

AtRst == <<65, 84, 43, 82, 83, 84>>                       \* "AT+RST"
At2 == <<65, 84>>                                         \* "AT"
CrLf == <<13, 10>>                                        \* "\r\n"
Plus3 == <<43, 43, 43>>                                   \* "+++"
OkLine == <<13, 10, 79, 75, 13, 10>>                      \* "\r\nOK\r\n"
ErrorLine == <<13, 10, 69, 82, 82, 79, 82, 13, 10>>       \* "\r\nERROR\r\n"
BusyLine == <<98, 117, 115, 121, 32, 112, 46, 46, 46, 13, 10>>  \* "busy p...\r\n"
ReadyLine == <<13, 10, 114, 101, 97, 100, 121, 13, 10>>   \* "\r\nready\r\n"
CanceledLine ==                                           \* "\r\nSEND Canceled\r\n"
    <<13, 10, 83, 69, 78, 68, 32, 67, 97, 110, 99, 101, 108, 101, 100, 13, 10>>
\* a line that is none of the above: "\r\nOAK\r\n"
OtherLine == <<13, 10, 79, 65, 75, 13, 10>>

ResponseLines == {OkLine, ErrorLine, BusyLine, ReadyLine, CanceledLine, OtherLine}

WriteCommands == {<<>>, At2}
WriteTargets == {<<>>, OkLine}
WriteTimeouts == {0 - 1, 0, 100}
RestartTimeouts == {0, 100}

ReturnedVoid(l) == [kind |-> "void", val |-> 0, line |-> l]

\* The state of the finder called by a command.
finder == <<op, targets, timeout_ms, arrived, nEarly,
            pc, offsets, ret, nproc, ntaken,
            spc, offset, sret, snproc, sntaken>>

\* emakefun.multiFindUtil(ts, t) is called: arrived restarts as the bytes
\* waiting in the receive buffer.
StartMulti(ts, t) ==
    /\ op' = "multi" /\ targets' = ts /\ timeout_ms' = t
    /\ pc' = "entry" /\ spc' = "idle"
    /\ offsets' = <<>> /\ ret' = None /\ nproc' = 0 /\ ntaken' = 0
    /\ offset' = 0 /\ sret' = None /\ snproc' = 0 /\ sntaken' = 0
    /\ arrived' = rx /\ nEarly' = Len(rx)

\* emakefun.singleFindUtil(t, timeout) is called.
StartSingle(t, timeout) ==
    /\ op' = "single" /\ targets' = <<t>> /\ timeout_ms' = timeout
    /\ pc' = "idle" /\ spc' = "entry"
    /\ offsets' = <<>> /\ ret' = None /\ nproc' = 0 /\ ntaken' = 0
    /\ offset' = 0 /\ sret' = None /\ snproc' = 0 /\ sntaken' = 0
    /\ arrived' = rx /\ nEarly' = Len(rx)

\* The module sends one line while a finder is being called; a line sent
\* between two calls is a line waiting when the next call is entered.
Respond ==
    /\ cpc \notin {"none", "done"}
    /\ Entering \/ Running
    /\ nlines < MaxResponses
    /\ \E l \in ResponseLines :
         /\ rx' = rx \o l
         /\ arrived' = arrived \o l
    /\ nlines' = nlines + 1
    /\ UNCHANGED <<op, targets, timeout_ms, now, end_time, nEarly>>
    /\ UNCHANGED <<mvars, svars, num_str>>
    /\ UNCHANGED <<cpc, command, success_target, ctimeout, cend, tx, cret, ev>>

\* Time passes up to the deadline of the finder or of restart.
Elapse ==
    /\ cpc \notin {"none", "done"}
    /\ \E t \in {end_time, cend} : t > now /\ now' = t
    /\ UNCHANGED <<op, targets, timeout_ms, end_time, rx, arrived, nEarly>>
    /\ UNCHANGED <<mvars, svars, num_str, cvars>>

(* writeCommand up to its call of multiFindUtil; next is where the caller  *)
(* waits for the finder.                                                   *)
WriteCommandStep(cmd, target, t, next) ==
    IF cmd = <<>> \/ target = <<>> \/ t < 0
    THEN /\ cpc' = "done"
         /\ cret' = Threw(39)
         /\ UNCHANGED <<tx, finder>>
    ELSE /\ tx' = Append(tx, cmd \o CrLf)
         /\ StartMulti(<<target, ErrorLine, BusyLine>>, t)
         /\ cpc' = next
         /\ UNCHANGED cret

\* `emakefun.multiFindUtil(targets, timeout_ms) === 0'
WriteCommandResult == ret.kind = "index" /\ ret.val = 0

WriteEnter ==
    /\ cpc = "write"
    /\ WriteCommandStep(command, success_target, ctimeout, "write_wait")
    /\ UNCHANGED <<now, end_time, rx, num_str>>
    /\ UNCHANGED <<command, success_target, ctimeout, cend, nlines, ev>>

WriteReturn ==
    /\ cpc = "write_wait" /\ pc = "done"
    /\ cpc' = "done"
    /\ cret' = Bool(WriteCommandResult, 43)
    /\ UNCHANGED <<now, end_time, rx, num_str, finder>>
    /\ UNCHANGED <<command, success_target, ctimeout, cend, tx, nlines, ev>>

\* One finder call of a restart: what it was, what it returned, and whether
\* its target lies in the bytes it processed.
Event(what, res, heard) == [what |-> what, res |-> res, heard |-> heard]

Hears(bytes, t) ==
    \E n \in Len(t) .. Len(bytes) : SubSeq(bytes, n - Len(t) + 1, n) = t

(* cancelSend up to its call of singleFindUtil. *)
CancelSendStep ==
    /\ now' = now + 30
    /\ tx' = Append(tx, Plus3)
    /\ StartSingle(CanceledLine, 500)
    /\ cpc' = "cancel"
    /\ UNCHANGED cret

\* A restart that tries again whatever the clock says.
RestartTestStepAlways ==
    /\ ev' = Append(ev, Event("test", now < cend, FALSE))
    /\ cpc' = "attempt"
    /\ UNCHANGED cret

(* restart: `while (input.runningTime() < end_time)' and the throw after   *)
(* the loop.                                                               *)
RestartTestStep ==
    /\ ev' = Append(ev, Event("test", now < cend, FALSE))
    /\ IF now < cend
       THEN cpc' = "attempt" /\ UNCHANGED cret
       ELSE cpc' = "done" /\ cret' = Threw(99)

RestartEnter ==
    /\ cpc = "restart"
    /\ cend' = now + ctimeout
    /\ cpc' = "attempt"
    /\ UNCHANGED <<now, end_time, rx, num_str, finder>>
    /\ UNCHANGED <<command, success_target, ctimeout, tx, cret, nlines, ev>>

RestartAttempt ==
    /\ cpc = "attempt"
    /\ WriteCommandStep(AtRst, OkLine, 100, "rst")
    /\ UNCHANGED <<now, end_time, rx, num_str>>
    /\ UNCHANGED <<command, success_target, ctimeout, cend, nlines, ev>>

RestartAfterRst ==
    /\ cpc = "rst" /\ pc = "done"
    /\ ev' = Append(ev, Event("rst", WriteCommandResult,
                              Hears(SubSeq(arrived, 1, nproc), OkLine)))
    /\ IF WriteCommandResult
       THEN /\ StartSingle(ReadyLine, 1000)
            /\ cpc' = "ready"
            /\ UNCHANGED <<now, tx, cret>>
       ELSE CancelSendStep
    /\ UNCHANGED <<end_time, rx, num_str>>
    /\ UNCHANGED <<command, success_target, ctimeout, cend, nlines>>

RestartAfterReady ==
    /\ cpc = "ready" /\ spc = "done"
    /\ ev' = Append(ev, Event("ready", sret.kind = "true",
                              Hears(SubSeq(arrived, 1, snproc), ReadyLine)))
    /\ IF sret.kind = "true"
       THEN /\ WriteCommandStep(At2, OkLine, 100, "at")
            /\ UNCHANGED now
       ELSE CancelSendStep
    /\ UNCHANGED <<end_time, rx, num_str>>
    /\ UNCHANGED <<command, success_target, ctimeout, cend, nlines>>

RestartAfterAt ==
    /\ cpc = "at" /\ pc = "done"
    /\ ev' = Append(ev, Event("at", WriteCommandResult,
                              Hears(SubSeq(arrived, 1, nproc), OkLine)))
    /\ cpc' = "done"
    /\ cret' = IF WriteCommandResult THEN ReturnedVoid(94) ELSE Threw(92)
    /\ UNCHANGED <<now, end_time, rx, num_str, finder>>
    /\ UNCHANGED <<command, success_target, ctimeout, cend, tx, nlines>>

RestartAfterCancel ==
    /\ cpc = "cancel" /\ spc = "done"
    /\ ev' = Append(ev, Event("cancel", sret.kind = "true",
                              Hears(SubSeq(arrived, 1, snproc), CanceledLine)))
    /\ IF sret.kind = "true"
       THEN /\ cpc' = "test"
            /\ UNCHANGED <<tx, rx, cret>>
       ELSE /\ tx' = Append(tx, CrLf)
            /\ rx' = <<>>
            /\ cret' = Threw(115)
            /\ cpc' = "done"
    /\ UNCHANGED <<now, end_time, num_str, finder>>
    /\ UNCHANGED <<command, success_target, ctimeout, cend, nlines>>

RestartTest ==
    /\ cpc = "test"
    /\ RestartTestStep
    /\ UNCHANGED <<now, end_time, rx, num_str, finder>>
    /\ UNCHANGED <<command, success_target, ctimeout, cend, tx, nlines>>

\* No finder is running and nothing has been written or received.
InitCommand ==
    /\ op = "multi" /\ targets = <<>> /\ timeout_ms = 0
    /\ now = 0 /\ end_time = 0
    /\ rx = <<>> /\ arrived = <<>> /\ nEarly = 0
    /\ pc = "idle" /\ offsets = <<>> /\ ret = None /\ nproc = 0 /\ ntaken = 0
    /\ spc = "idle" /\ offset = 0 /\ sret = None /\ snproc = 0 /\ sntaken = 0
    /\ num_str = <<>>
    /\ cend = 0 /\ tx = <<>> /\ cret = None /\ nlines = 0 /\ ev = <<>>

InitWrite ==
    /\ InitCommand
    /\ cpc = "write"
    /\ command \in WriteCommands
    /\ success_target \in WriteTargets
    /\ ctimeout \in WriteTimeouts

InitRestart ==
    /\ InitCommand
    /\ cpc = "restart"
    /\ command = <<>>
    /\ success_target = <<>>
    /\ ctimeout \in RestartTimeouts

NextWrite ==
    \/ Respond \/ Elapse
    \/ WriteEnter \/ WriteReturn
    \/ MultiEnter \/ MultiPoll \/ MultiCheck

NextRestart ==
    \/ Respond \/ Elapse
    \/ RestartEnter \/ RestartAttempt \/ RestartAfterRst \/ RestartAfterReady
    \/ RestartAfterAt \/ RestartAfterCancel \/ RestartTest
    \/ MultiEnter \/ MultiPoll \/ MultiCheck
    \/ SingleEnter \/ SinglePoll \/ SingleCheck

SpecWrite == InitWrite /\ [][NextWrite]_vars
SpecRestart == InitRestart /\ [][NextRestart]_vars

(* C13: writeCommand writes the command followed by CR LF exactly once and *)
(* returns true if the success_target response is received within the      *)
(* timeout, and false otherwise: false when "\r\nERROR\r\n" or             *)
(* "busy p...\r\n" is received before success_target, and when the timeout *)
(* passes with none of the three received.                                 *)
C13_TrueIffSuccessReceived ==
    (cpc = "done" /\ cret.kind \in {"true", "false"}) =>
        /\ tx = << command \o CrLf >>
        /\ (cret.kind = "true") = Hears(Processed, success_target)
        /\ (Hears(Processed, ErrorLine) \/ Hears(Processed, BusyLine))
              => cret.kind = "false"
        /\ ret = Index(0 - 1, 62) => cret.kind = "false"

\* The finder events of the attempt a restart is in or ended in: those
\* since the last deadline test.
RECURSIVE LastAttempt(_)
LastAttempt(e) ==
    IF e = <<>> THEN <<>>
    ELSE IF e[Len(e)].what = "test" THEN <<>>
    ELSE Append(LastAttempt(SubSeq(e, 1, Len(e) - 1)), e[Len(e)])

RestartEnded == cpc = "done" /\ ev # <<>>

(* C19: restart returns normally only after, in this order within one      *)
(* attempt, AT+RST was answered by "\r\nOK\r\n", "\r\nready\r\n" was       *)
(* found, and a following AT was answered by "\r\nOK\r\n"; every other     *)
(* execution of restart ends by raising an error, never by returning.      *)
C19_ReturnsOnlyAfterOkReadyOk ==
    RestartEnded =>
        /\ cret.kind \in {"void", "throw"}
        /\ cret.kind = "void" =>
              /\ LastAttempt(ev) = << Event("rst", TRUE, TRUE),
                                      Event("ready", TRUE, TRUE),
                                      Event("at", TRUE, TRUE) >>
              /\ Len(tx) >= 2
              /\ tx[Len(tx)] = At2 \o CrLf
        /\ LastAttempt(ev) # << Event("rst", TRUE, TRUE),
                                Event("ready", TRUE, TRUE),
                                Event("at", TRUE, TRUE) >>
              => cret.kind = "throw"

\* The number of times AT+RST was written.
RECURSIVE Sent(_, _)
Sent(t, line) ==
    IF t = <<>> THEN 0
    ELSE (IF Head(t) = line THEN 1 ELSE 0) + Sent(Tail(t), line)

\* The number of deadline tests of restart that found time left.
RECURSIVE TestsPassed(_)
TestsPassed(e) ==
    IF e = <<>> THEN 0
    ELSE (IF Head(e).what = "test" /\ Head(e).res THEN 1 ELSE 0)
         + TestsPassed(Tail(e))

(* C20: restart sends AT+RST a second or later time only after a failed    *)
(* attempt whose cancelSend found "\r\nSEND Canceled\r\n" and only while   *)
(* the clock is before restart's deadline; when cancelSend does not find   *)
(* it, restart ends with the cancel-send error without another attempt     *)
(* even if time remains, and when the deadline has passed after a failed   *)
(* attempt it ends with the restart-failed error.                          *)
C20_RetriesOnlyAfterCancelAndInTime ==
    /\ cpc \notin {"none", "restart"} =>
          Sent(tx, AtRst \o CrLf)
              = (IF cpc = "attempt" THEN 0 ELSE 1) + TestsPassed(ev)
    /\ \A i \in 1 .. Len(ev) :
          ev[i].what = "test" =>
              /\ i > 1
              /\ ev[i - 1].what = "cancel" /\ ev[i - 1].res /\ ev[i - 1].heard
              /\ i > 2 /\ ev[i - 2].what \in {"rst", "ready"} /\ ~ev[i - 2].res
    /\ \A i \in 1 .. Len(ev) :
          (ev[i].what = "cancel" /\ ~ev[i].res) =>
              /\ i = Len(ev)
              /\ cpc = "done" /\ cret = Threw(115)
              /\ tx[Len(tx)] = CrLf
    /\ \A i \in 1 .. Len(ev) :
          (ev[i].what = "test" /\ ~ev[i].res) =>
              /\ i = Len(ev)
              /\ cpc = "done" /\ cret = Threw(99)
              /\ now >= cend

\* A second AT+RST has been written, 30 ms into a restart(100) whose first
\* AT+RST was answered with an error and whose "+++" was acknowledged.
C20_Witness ==
    /\ ctimeout = 100
    /\ Sent(tx, AtRst \o CrLf) = 2
    /\ ev = << Event("rst", FALSE, FALSE), Event("cancel", TRUE, TRUE),
               Event("test", TRUE, FALSE) >>
    /\ now < cend

=============================================================================
